---- MODULE Spec2Model ----
(***************************************************************************)
(* The SLA Compliance Watchdog (checkSlaCompliance) over a document store  *)
(* with two collections, checkpoints and alerts.  An invocation is a       *)
(* sequence of atomic steps separated by the awaits of the source: the     *)
(* overdue query, one existence query per chunk of ten checkpoint ids,     *)
(* the alert batch commit and the status batch commit.  The verification   *)
(* pipeline (service events) and the alert closure workflow are the        *)
(* environment.  Instants are milliseconds since the epoch.                *)
(***************************************************************************)
EXTENDS Integers, Sequences, FiniteSets, TLC

VARIABLES clock, checkpoints, alerts, inv, runs, nServices, nClosures,
          heap, sanitized

vars == <<clock, checkpoints, alerts, inv, runs, nServices, nClosures,
          heap, sanitized>>

\* ---------------------------------------------------------------- bounds
NumCheckpoints == 2
NumBuildings == 2
MaxTicks == 2
MaxRuns == 3
MaxServices == 1
MaxClosures == 1
MaxFineHours == 1
MaxOverdue == 25
MaxPattern == 4

\* ------------------------------------------------------------- constants
HourMs == 3600000
DEFAULT_MAX_GAP_HOURS == 4
chunkSize == 10
TickMs == 5 * HourMs
BatchLimit == 500

Procs == {1, 2}

\* an absent field of a document, and the "never" of last_cleaned_at
Absent == -1
Never == -2

Min(a, b) == IF a < b THEN a ELSE b

Range(s) == {s[k] : k \in DOMAIN s}

\* ------------------------------------------- objects of the PII filter
\* A value is undefined, a primitive (a text: a sequence of words) or a
\* reference to an object; an object maps every key to a value.
undefined == [t |-> "undefined"]
Prim(text) == [t |-> "prim", v |-> text]
Ref(id) == [t |-> "ref", id |-> id]

\* the cleaning log handed to the filter and the objects it is made of
LogObjects ==
    {<<"log">>, <<"log", "proof_of_quality">>,
     <<"log", "verification_result">>, <<"log", "proof_of_presence">>}

\* the objects pickPaths creates: result = {} and target[key] = {}
ResultObjects ==
    {<<"result">>, <<"result", "proof_of_quality">>,
     <<"result", "verification_result">>}

ObjIds == LogObjects \cup ResultObjects

Keys ==
    {"id", "checkpoint_id", "building_id", "sync_status", "created_at",
     "cleaner_id", "proof_of_quality", "verification_result",
     "proof_of_presence", "overall_score", "detected_objects",
     "ai_model_used", "inference_time_ms", "passed_validation", "status",
     "rejection_reason", "geo_location", "nfc_tap_timestamp", "verified_by"}

\* {}
EmptyObject == [k \in Keys |-> undefined]

\* no object allocated
NoObjects == [o \in ObjIds |-> EmptyObject]

\* ------------------------------------------------------- pure operators
\* new Date(now.getTime() - DEFAULT_MAX_GAP_HOURS * 60 * 60 * 1000)
thresholdDate(now) == now - (DEFAULT_MAX_GAP_HOURS * HourMs)

\* the overdue filter with <= in place of <
IsOverdueInclusive(data, threshold) ==
    /\ data.is_active = TRUE
    /\ data.last_cleaned_timestamp # Absent
    /\ data.last_cleaned_timestamp <= threshold

\* where("is_active","==",true).where("last_cleaned_timestamp","<",threshold):
\* an inequality filter matches only documents that have the field
IsOverdue(data, threshold) ==
    /\ data.is_active = TRUE
    /\ data.last_cleaned_timestamp # Absent
    /\ data.last_cleaned_timestamp < threshold

\* the store returns the matching documents ordered by the filtered field,
\* then by document id
DocBefore(cps, c, d) ==
    \/ cps[c].last_cleaned_timestamp < cps[d].last_cleaned_timestamp
    \/ /\ cps[c].last_cleaned_timestamp = cps[d].last_cleaned_timestamp
       /\ c < d

OverdueSnapshot(cps, threshold) ==
    LET all == [c \in 1..Len(cps) |-> c]
        hits == SelectSeq(all, LAMBDA c : IsOverdue(cps[c], threshold))
        sorted == SortSeq(hits, LAMBDA c, d : DocBefore(cps, c, d))
    IN  [k \in 1..Len(sorted) |-> [id |-> sorted[k], data |-> cps[sorted[k]]]]

\* overdueCheckpointsSnapshot.docs.map(doc => doc.id)
checkpointIds(docs) == [k \in 1..Len(docs) |-> docs[k].id]

\* a slice that starts one id late
SliceChunkSkipFirst(ids, i) == SubSeq(ids, i + 2, Min(i + chunkSize, Len(ids)))

\* a slice that ends one id late
SliceChunkOverlap(ids, i) == SubSeq(ids, i + 1, Min(i + chunkSize + 1, Len(ids)))

\* checkpointIds.slice(i, i + chunkSize)
SliceChunk(ids, i) == SubSeq(ids, i + 1, Min(i + chunkSize, Len(ids)))

\* the existence query without its status filter
ExistingAlertsAnyStatus(als, chunk) ==
    {k \in DOMAIN als :
        /\ als[k].checkpoint_id \in Range(chunk)
        /\ als[k].type = "SLA_MISSING_CLEAN"}

\* the existence query with the wrong status in its filter
ExistingAlertsClosedOnly(als, chunk) ==
    {k \in DOMAIN als :
        /\ als[k].checkpoint_id \in Range(chunk)
        /\ als[k].type = "SLA_MISSING_CLEAN"
        /\ als[k].status = "CLOSED"}

\* alerts where checkpoint_id in chunk, type SLA_MISSING_CLEAN, status OPEN
ExistingAlerts(als, chunk) ==
    {k \in DOMAIN als :
        /\ als[k].checkpoint_id \in Range(chunk)
        /\ als[k].type = "SLA_MISSING_CLEAN"
        /\ als[k].status = "OPEN"}

\* a map made anew for every chunk
MapAfterChunkReplace(map, als, chunk) ==
    {als[k].checkpoint_id : k \in ExistingAlerts(als, chunk)}

\* existingAlertsMap.set(alertDoc.data().checkpoint_id, true) for each result
MapAfterChunk(map, als, chunk) ==
    map \cup {als[k].checkpoint_id : k \in ExistingAlerts(als, chunk)}

\* data.last_cleaned_timestamp?.toMillis() || 0
lastCleanedMs(data) ==
    IF data.last_cleaned_timestamp = Absent THEN 0
    ELSE data.last_cleaned_timestamp

\* data.last_cleaned_at || "never"
lastCleanedAt(data) ==
    IF data.last_cleaned_at = Absent THEN Never ELSE data.last_cleaned_at

\* the hundredths cut off instead of rounded
ToFixed2Truncated(ms) ==
    ((ms \div HourMs) * 100) + (((ms % HourMs) * 100) \div HourMs)

\* Number(x.toFixed(2)) for x = ms / 3600000, ms >= 0, as hundredths:
\* the nearest hundredth of an hour (whole hours and remainder are taken
\* apart so that every intermediate product stays within 32 bits)
ToFixed2(ms) ==
    ((ms \div HourMs) * 100) + ((((ms % HourMs) * 100) + (HourMs \div 2)) \div HourMs)

\* parseFloat(((now.getTime() - lastCleanedMs) / (1000*60*60)).toFixed(2))
\* the hours of a never-serviced checkpoint forced to 0
hoursOverdueClamped(now, data) ==
    IF lastCleanedMs(data) = 0 THEN 0 ELSE ToFixed2(now - lastCleanedMs(data))

hoursOverdue(now, data) == ToFixed2(now - lastCleanedMs(data))

\* the build loop without its skip test
NeedsAlertNoSkip(doc, map) == TRUE

\* the skip test of the build loop: existingAlertsMap.has(checkpointId)
NeedsAlert(doc, map) == doc.id \notin map

\* the loop over overdueCheckpointsSnapshot.docs that fills alertsToCreate
BuildAlertsToCreate(docs, map, now) ==
    LET todo == SelectSeq(docs, LAMBDA d : NeedsAlert(d, map))
    IN  [k \in 1..Len(todo) |->
            [checkpointId |-> todo[k].id,
             buildingId |-> todo[k].data.building_id,
             lastCleanedAt |-> lastCleanedAt(todo[k].data),
             hoursOverdue |-> hoursOverdue(now, todo[k].data)]]

\* the document written by batch.set(newAlertRef, {...})
NewAlert(a, at) ==
    [building_id |-> a.buildingId,
     checkpoint_id |-> a.checkpointId,
     type |-> "SLA_MISSING_CLEAN",
     severity |-> "MEDIUM",
     status |-> "OPEN",
     hours_overdue |-> a.hoursOverdue,
     sla_threshold_hours |-> DEFAULT_MAX_GAP_HOURS,
     last_cleaned_at |-> a.lastCleanedAt,
     created_at |-> at]

\* a batch that misses the last queued alert
AlertBatchDropLast(queue, at) ==
    [k \in 1..(Len(queue) - 1) |-> NewAlert(queue[k], at)]

\* the batch of the alert writer: one set per queued alert, in order
AlertBatch(queue, at) == [k \in 1..Len(queue) |-> NewAlert(queue[k], at)]

\* the ids touched by statusBatch.update
StatusTargets(queue) == {queue[k].checkpointId : k \in DOMAIN queue}

\* ---------------------------------------------------------------- state
IdleInv ==
    [pc |-> "IDLE", run |-> 0, now |-> 0, threshold |-> 0,
     overdue |-> <<>>, i |-> 0, existingAlertsMap |-> {},
     alertsToCreate |-> <<>>, dedupQueries |-> <<>>, commits |-> <<>>,
     servicesAtStart |-> 0, closuresAtStart |-> 0,
     stages |-> <<>>, reads |-> <<>>, overlapped |-> FALSE, added |-> <<>>]

\* the invocation r moves to stage s (the chunk loop stays in DEDUP)
Enter(r, s) ==
    IF s = r.pc THEN r ELSE [r EXCEPT !.pc = s, !.stages = Append(@, s)]

NewCheckpoint(c, active, ts) ==
    [building_id |-> ((c - 1) % NumBuildings) + 1,
     is_active |-> active,
     last_cleaned_timestamp |-> ts,
     last_cleaned_at |-> ts,
     current_status |-> IF ts = Absent THEN "UNKNOWN" ELSE "CLEAN",
     updated_at |-> 0]

Init ==
    /\ clock = 0
    /\ \E act \in [1..NumCheckpoints -> BOOLEAN] :
          checkpoints = [c \in 1..NumCheckpoints |-> NewCheckpoint(c, act[c], 0)]
    /\ alerts = <<>>
    /\ inv = [p \in Procs |-> IdleInv]
    /\ runs = 0
    /\ nServices = 0
    /\ nClosures = 0
    /\ heap = NoObjects
    /\ sanitized = undefined

\* no early return on an empty snapshot
AfterQueryNoShortCircuit(docs) == "DEDUP"

\* if (overdueCheckpointsSnapshot.empty) return;
AfterQuery(docs) == IF Len(docs) = 0 THEN "DONE" ELSE "DEDUP"

\* no early return on an empty queue
AfterDedupAlwaysWrite(queue) == "WRITE_ALERTS"

\* if (alertsToCreate.length === 0) return;
AfterDedup(queue) == IF Len(queue) = 0 THEN "DONE" ELSE "WRITE_ALERTS"

\* ------------------------------------------------------------ invocation
Running(p) == inv[p].pc \in {"QUERY", "DEDUP", "WRITE_ALERTS", "UPDATE_STATUS"}

\* the scheduler fires: const now = new Date(); thresholdDate; the overdue
\* query is issued
Start(p) ==
    /\ inv[p].pc \in {"IDLE", "DONE", "FAILED"}
    /\ runs < MaxRuns
    /\ runs' = runs + 1
    /\ inv' = [inv EXCEPT ![p] =
                  [IdleInv EXCEPT !.pc = "QUERY",
                                  !.stages = <<"START", "THRESHOLD", "QUERY">>,
                                  !.run = runs + 1,
                                  !.now = clock,
                                  !.threshold = thresholdDate(clock),
                                  !.servicesAtStart = nServices,
                                  !.closuresAtStart = nClosures,
                                  !.overlapped =
                                      \/ inv[p].overlapped
                                      \/ \E q \in Procs \ {p} : Running(q)]]
    /\ UNCHANGED <<heap, sanitized, clock, checkpoints, alerts, nServices, nClosures>>

\* the scheduler as the spec assumes it: single-flight
StartSingleFlight(p) ==
    /\ \A q \in Procs \ {p} : ~Running(q)
    /\ Start(p)

\* the overdue checkpoints gathered building by building: the buildings are
\* read, then the checkpoints of each
OverdueQueryPerBuilding(p) ==
    /\ inv[p].pc = "QUERY"
    /\ LET docs == OverdueSnapshot(checkpoints, inv[p].threshold)
       IN  inv' = [inv EXCEPT ![p] =
                      Enter([@ EXCEPT !.overdue = docs,
                                      !.reads = @ \o <<"buildings">>
                                                  \o [b \in 1..NumBuildings |->
                                                         "checkpoints"]],
                            AfterQuery(docs))]
    /\ UNCHANGED <<heap, sanitized, clock, checkpoints, alerts, runs, nServices, nClosures>>

\* await db.collection("checkpoints").where(...).where(...).get(), the
\* empty test and the set-up of the chunk loop
OverdueQuery(p) ==
    /\ inv[p].pc = "QUERY"
    /\ LET docs == OverdueSnapshot(checkpoints, inv[p].threshold)
       IN  inv' = [inv EXCEPT ![p] =
                      Enter([@ EXCEPT !.overdue = docs,
                                      !.reads = Append(@, "checkpoints")],
                            AfterQuery(docs))]
    /\ UNCHANGED <<heap, sanitized, clock, checkpoints, alerts, runs, nServices, nClosures>>

\* a build loop that reads the time again instead of using now
ChunkQueryFreshNow(p) ==
    /\ inv[p].pc = "DEDUP"
    /\ LET ids == checkpointIds(inv[p].overdue)
           chunk == SliceChunk(ids, inv[p].i)
           map == MapAfterChunk(inv[p].existingAlertsMap, alerts, chunk)
           next == inv[p].i + chunkSize
           queue == BuildAlertsToCreate(inv[p].overdue, map, clock)
       IN  inv' = [inv EXCEPT ![p] =
                      Enter([@ EXCEPT
                                !.dedupQueries = Append(@, chunk),
                                !.reads = Append(@, "alerts"),
                                !.existingAlertsMap = map,
                                !.i = next,
                                !.alertsToCreate = IF next < Len(ids) THEN @ ELSE queue],
                            IF next < Len(ids) THEN "DEDUP" ELSE AfterDedup(queue))]
    /\ UNCHANGED <<heap, sanitized, clock, checkpoints, alerts, runs, nServices, nClosures>>

\* a chunk loop that goes back to the first chunk after the second
ChunkQueryRewind(p) ==
    /\ inv[p].pc = "DEDUP"
    /\ LET ids == checkpointIds(inv[p].overdue)
           chunk == SliceChunk(ids, inv[p].i)
           map == MapAfterChunk(inv[p].existingAlertsMap, alerts, chunk)
           next == IF inv[p].i = chunkSize THEN 0 ELSE inv[p].i + chunkSize
           queue == BuildAlertsToCreate(inv[p].overdue, map, inv[p].now)
       IN  inv' = [inv EXCEPT ![p] =
                      Enter([@ EXCEPT
                                !.dedupQueries = <<chunk>>,
                                !.reads = <<"checkpoints", "alerts">>,
                                !.existingAlertsMap = map,
                                !.i = next,
                                !.alertsToCreate = IF next < Len(ids) THEN @ ELSE queue],
                            IF next < Len(ids) THEN "DEDUP" ELSE AfterDedup(queue))]
    /\ UNCHANGED <<heap, sanitized, clock, checkpoints, alerts, runs, nServices, nClosures>>

\* one iteration of the chunk loop: the existence query of the chunk at i
\* and, after the last chunk, the build loop and the ALL_DUPLICATE test
ChunkQuery(p) ==
    /\ inv[p].pc = "DEDUP"
    /\ LET ids == checkpointIds(inv[p].overdue)
           chunk == SliceChunk(ids, inv[p].i)
           map == MapAfterChunk(inv[p].existingAlertsMap, alerts, chunk)
           next == inv[p].i + chunkSize
           queue == BuildAlertsToCreate(inv[p].overdue, map, inv[p].now)
       IN  inv' = [inv EXCEPT ![p] =
                      Enter([@ EXCEPT
                                !.dedupQueries = Append(@, chunk),
                                !.reads = Append(@, "alerts"),
                                !.existingAlertsMap = map,
                                !.i = next,
                                !.alertsToCreate = IF next < Len(ids) THEN @ ELSE queue],
                            IF next < Len(ids) THEN "DEDUP" ELSE AfterDedup(queue))]
    /\ UNCHANGED <<heap, sanitized, clock, checkpoints, alerts, runs, nServices, nClosures>>

\* alerts written under the id of their checkpoint: the commit replaces the
\* alerts those checkpoints already have
CommitAlertsOverwrite(p) ==
    /\ inv[p].pc = "WRITE_ALERTS"
    /\ alerts' = SelectSeq(alerts,
                     LAMBDA a : \A k \in DOMAIN inv[p].alertsToCreate :
                                   inv[p].alertsToCreate[k].checkpointId
                                      # a.checkpoint_id)
                     \o AlertBatch(inv[p].alertsToCreate, clock)
    /\ inv' = [inv EXCEPT ![p] =
                  Enter([@ EXCEPT !.commits =
                                      Append(@, [kind |-> "alerts",
                                                 size |-> Len(inv[p].alertsToCreate)])],
                        "UPDATE_STATUS")]
    /\ UNCHANGED <<heap, sanitized, clock, checkpoints, runs, nServices, nClosures>>

\* await batch.commit(): every queued alert is written, atomically
CommitAlerts(p) ==
    /\ inv[p].pc = "WRITE_ALERTS"
    /\ alerts' = alerts \o AlertBatch(inv[p].alertsToCreate, clock)
    /\ inv' = [inv EXCEPT ![p] =
                  Enter([@ EXCEPT !.commits =
                                      Append(@, [kind |-> "alerts",
                                                 size |-> Len(inv[p].alertsToCreate)])],
                        "UPDATE_STATUS")]
    /\ UNCHANGED <<heap, sanitized, clock, checkpoints, runs, nServices, nClosures>>

\* a status write that replaces the checkpoint document instead of updating
\* two of its fields
CommitStatusSet(p) ==
    /\ inv[p].pc = "UPDATE_STATUS"
    /\ checkpoints' =
          [c \in DOMAIN checkpoints |->
              IF c \in StatusTargets(inv[p].alertsToCreate)
              THEN [checkpoints[c] EXCEPT !.current_status = "OVERDUE",
                                          !.updated_at = clock,
                                          !.last_cleaned_timestamp = Absent,
                                          !.last_cleaned_at = Absent]
              ELSE checkpoints[c]]
    /\ inv' = [inv EXCEPT ![p] =
                  Enter([@ EXCEPT !.commits =
                                      Append(@, [kind |-> "status",
                                                 size |-> Len(inv[p].alertsToCreate)])],
                        "DONE")]
    /\ UNCHANGED <<heap, sanitized, clock, alerts, runs, nServices, nClosures>>

\* a status batch over every checkpoint the overdue query returned
CommitStatusAllOverdue(p) ==
    /\ inv[p].pc = "UPDATE_STATUS"
    /\ checkpoints' =
          [c \in DOMAIN checkpoints |->
              IF \E k \in DOMAIN inv[p].overdue : inv[p].overdue[k].id = c
              THEN [checkpoints[c] EXCEPT !.current_status = "OVERDUE",
                                          !.updated_at = clock]
              ELSE checkpoints[c]]
    /\ inv' = [inv EXCEPT ![p] =
                  Enter([@ EXCEPT !.commits =
                                      Append(@, [kind |-> "status",
                                                 size |-> Len(inv[p].alertsToCreate)])],
                        "DONE")]
    /\ UNCHANGED <<heap, sanitized, clock, alerts, runs, nServices, nClosures>>

\* await statusBatch.commit(): current_status OVERDUE on every alerted id
CommitStatus(p) ==
    /\ inv[p].pc = "UPDATE_STATUS"
    /\ checkpoints' =
          [c \in DOMAIN checkpoints |->
              IF c \in StatusTargets(inv[p].alertsToCreate)
              THEN [checkpoints[c] EXCEPT !.current_status = "OVERDUE",
                                          !.updated_at = clock]
              ELSE checkpoints[c]]
    /\ inv' = [inv EXCEPT ![p] =
                  Enter([@ EXCEPT !.commits =
                                      Append(@, [kind |-> "status",
                                                 size |-> Len(inv[p].alertsToCreate)])],
                        "DONE")]
    /\ UNCHANGED <<heap, sanitized, clock, alerts, runs, nServices, nClosures>>

\* a failed status commit that deletes the alerts the invocation created
FailRollback(p) ==
    /\ Running(p)
    /\ inv' = [inv EXCEPT ![p] = Enter(@, "FAILED")]
    /\ alerts' = IF inv[p].pc = "UPDATE_STATUS"
                 THEN SubSeq(alerts, 1, Len(alerts) - Len(inv[p].alertsToCreate))
                 ELSE alerts
    /\ UNCHANGED <<heap, sanitized, clock, checkpoints, runs, nServices, nClosures>>

\* a rejected overdue query taken as an empty result, the run going on
FailQueryProceeds(p) ==
    /\ Running(p)
    /\ inv' = [inv EXCEPT ![p] =
                  Enter(@, IF inv[p].pc = "QUERY" THEN "DEDUP" ELSE "FAILED")]
    /\ UNCHANGED <<heap, sanitized, clock, checkpoints, alerts, runs, nServices, nClosures>>

\* a rejected chunk query skipped over: the queue is built from the chunks
\* answered so far
FailProceedPartial(p) ==
    /\ Running(p)
    /\ inv' = [inv EXCEPT ![p] =
                  IF inv[p].pc = "DEDUP"
                  THEN LET queue == BuildAlertsToCreate(inv[p].overdue,
                                                        inv[p].existingAlertsMap,
                                                        inv[p].now)
                       IN  Enter([@ EXCEPT !.alertsToCreate = queue],
                                 AfterDedup(queue))
                  ELSE Enter(@, "FAILED")]
    /\ UNCHANGED <<heap, sanitized, clock, checkpoints, alerts, runs, nServices, nClosures>>

\* a catch that logs the error and returns normally
FailSwallowed(p) ==
    /\ Running(p)
    /\ inv' = [inv EXCEPT ![p] = Enter(@, "DONE")]
    /\ UNCHANGED <<heap, sanitized, clock, checkpoints, alerts, runs, nServices, nClosures>>

\* a rejected alert commit that has already written the first queued alert
FailPartialCommit(p) ==
    /\ Running(p)
    /\ inv' = [inv EXCEPT ![p] = Enter(@, "FAILED")]
    /\ alerts' = IF inv[p].pc = "WRITE_ALERTS"
                 THEN Append(alerts, NewAlert(inv[p].alertsToCreate[1], clock))
                 ELSE alerts
    /\ UNCHANGED <<heap, sanitized, clock, checkpoints, runs, nServices, nClosures>>

\* a rejected call answered by running the invocation again from the query
FailRetry(p) ==
    /\ Running(p)
    /\ inv' = [inv EXCEPT ![p] =
                  IF inv[p].pc = "QUERY" THEN Enter(@, "FAILED")
                  ELSE Enter([@ EXCEPT !.i = 0, !.existingAlertsMap = {},
                                       !.alertsToCreate = <<>>], "QUERY")]
    /\ UNCHANGED <<heap, sanitized, clock, checkpoints, alerts, runs, nServices, nClosures>>

\* an awaited store call rejects: catch (error) { throw error }
Fail(p) ==
    /\ Running(p)
    /\ inv' = [inv EXCEPT ![p] = Enter(@, "FAILED")]
    /\ UNCHANGED <<heap, sanitized, clock, checkpoints, alerts, runs, nServices, nClosures>>

\* ----------------------------------------------------------- environment
\* time passes between the events of the system
Tick ==
    /\ clock < MaxTicks * TickMs
    /\ clock' = clock + TickMs
    /\ UNCHANGED <<heap, sanitized, checkpoints, alerts, inv, runs, nServices, nClosures>>

\* the verification pipeline records a verified service of checkpoint c
ServiceEvent(c) ==
    /\ nServices < MaxServices
    /\ checkpoints[c].last_cleaned_timestamp < clock
    /\ checkpoints' = [checkpoints EXCEPT ![c].last_cleaned_timestamp = clock,
                                          ![c].last_cleaned_at = clock,
                                          ![c].current_status = "CLEAN",
                                          ![c].updated_at = clock]
    /\ nServices' = nServices + 1
    /\ UNCHANGED <<heap, sanitized, clock, alerts, inv, runs, nClosures>>

\* the external workflow closes the open alert k
CloseAlert(k) ==
    /\ nClosures < MaxClosures
    /\ alerts[k].status = "OPEN"
    /\ alerts' = [alerts EXCEPT ![k].status = "CLOSED"]
    /\ nClosures' = nClosures + 1
    /\ UNCHANGED <<heap, sanitized, clock, checkpoints, inv, runs, nServices>>

Environment ==
    \/ Tick
    \/ \E c \in DOMAIN checkpoints : ServiceEvent(c)
    \/ \E k \in DOMAIN alerts : CloseAlert(k)

Step(p) ==
    \/ OverdueQuery(p)
    \/ ChunkQuery(p)
    \/ CommitAlerts(p)
    \/ CommitStatus(p)
    \/ Fail(p)

\* invocations may overlap: the function does not prevent it
Next ==
    \/ Environment
    \/ \E p \in Procs : Start(p) \/ Step(p)

Spec == Init /\ [][Next]_vars

\* the scheduler provides single-flight invocation
NextSingleFlight ==
    \/ Environment
    \/ \E p \in Procs : StartSingleFlight(p) \/ Step(p)

SpecSingleFlight == Init /\ [][NextSingleFlight]_vars

\* ------------------------------------------- one run on a drawn store
\* one invocation, no environment: the store is drawn by the initial state
StartOnce ==
    /\ runs = 0
    /\ Start(1)

NextOneRun == StartOnce \/ Step(1)

\* instants around the cutoff: whole hours, one millisecond and twenty
\* minutes past them
FineOffsets == {0, 1, 20 * 60000}

FineStamps == {(h * HourMs) + d : h \in 0..MaxFineHours, d \in FineOffsets}

FineClocks == {((DEFAULT_MAX_GAP_HOURS + h) * HourMs) + d :
                  h \in 0..MaxFineHours, d \in FineOffsets}

InitBoundary ==
    /\ clock \in FineClocks
    /\ \E act \in [1..NumCheckpoints -> BOOLEAN] :
       \E ts \in [1..NumCheckpoints -> FineStamps \cup {Absent}] :
       \E rec \in [1..NumCheckpoints -> BOOLEAN] :
          checkpoints = [c \in 1..NumCheckpoints |->
                            [NewCheckpoint(c, act[c], ts[c]) EXCEPT
                                !.last_cleaned_at = IF rec[c] THEN @ ELSE Absent]]
    /\ alerts = <<>>
    /\ inv = [p \in Procs |-> IdleInv]
    /\ runs = 0
    /\ nServices = 0
    /\ nClosures = 0
    /\ heap = NoObjects
    /\ sanitized = undefined

SpecBoundary == InitBoundary /\ [][NextOneRun]_vars

\* an alert left in the store by an earlier run
PriorAlert(c, status) ==
    [NewAlert([checkpointId |-> c, buildingId |-> ((c - 1) % NumBuildings) + 1,
               lastCleanedAt |-> c % 2, hoursOverdue |-> 500], 0)
        EXCEPT !.status = status]

\* the alerts of checkpoints 1..n under pattern m: checkpoint c has
\* (c % m) % 3 open ones, and a closed one when c is even
PriorAlerts(n, m) ==
    LET slot(j) ==
            LET c == ((j - 1) \div 3) + 1
                s == (j - 1) % 3
            IN  [present |-> IF s = 2 THEN c % 2 = 0 ELSE s < ((c % m) % 3),
                 alert |-> PriorAlert(c, IF s = 2 THEN "CLOSED" ELSE "OPEN")]
        kept == SelectSeq([j \in 1..(3 * n) |-> slot(j)], LAMBDA x : x.present)
    IN  [k \in 1..Len(kept) |-> kept[k].alert]

\* n overdue checkpoints (cleaned at 0 or 1 ms) and one just cleaned
ManyCheckpoints(n, at) ==
    [c \in 1..(n + 1) |->
        NewCheckpoint(c, TRUE, IF c = n + 1 THEN at ELSE c % 2)]

InitMany(sizes) ==
    /\ clock = TickMs
    /\ \E n \in sizes : \E m \in 1..MaxPattern :
          /\ checkpoints = ManyCheckpoints(n, TickMs)
          /\ alerts = PriorAlerts(n, m)
    /\ inv = [p \in Procs |-> IdleInv]
    /\ runs = 0
    /\ nServices = 0
    /\ nClosures = 0
    /\ heap = NoObjects
    /\ sanitized = undefined

InitChunk == InitMany(0..MaxOverdue)

SpecChunk == InitChunk /\ [][NextOneRun]_vars

\* the chunk loop with its queries answered in any order: the chunk at any
\* offset not yet answered is joined to the map; the build loop runs after
\* the last answer
ChunkQueryAnyOrder(p) ==
    /\ inv[p].pc = "DEDUP"
    /\ LET ids == checkpointIds(inv[p].overdue)
           offsets == {k * chunkSize : k \in 0..((Len(ids) - 1) \div chunkSize)}
           done == Range(inv[p].dedupQueries)
       IN  \E off \in offsets :
              LET chunk == SliceChunk(ids, off)
                  map == MapAfterChunk(inv[p].existingAlertsMap, alerts, chunk)
                  next == inv[p].i + chunkSize
                  queue == BuildAlertsToCreate(inv[p].overdue, map, inv[p].now)
              IN  /\ chunk \notin done
                  /\ inv' = [inv EXCEPT ![p] =
                         Enter([@ EXCEPT
                                   !.dedupQueries = Append(@, chunk),
                                   !.reads = Append(@, "alerts"),
                                   !.existingAlertsMap = map,
                                   !.i = next,
                                   !.alertsToCreate =
                                       IF next < Len(ids) THEN @ ELSE queue],
                               IF next < Len(ids) THEN "DEDUP" ELSE AfterDedup(queue))]
    /\ UNCHANGED <<heap, sanitized, clock, checkpoints, alerts, runs, nServices, nClosures>>

NextAnyOrder ==
    \/ StartOnce
    \/ OverdueQuery(1)
    \/ ChunkQueryAnyOrder(1)
    \/ CommitAlerts(1)
    \/ CommitStatus(1)
    \/ Fail(1)

SpecChunkOrder == InitChunk /\ [][NextAnyOrder]_vars

\* one run in which the store answers every call, with a result or with an
\* error
SpecTermination == InitChunk /\ [][NextOneRun]_vars /\ WF_vars(Step(1))

\* ------------------------------------------ the predecessor watchdog
\* buildingsSnap.docs: the buildings of the store
Buildings == [b \in 1..NumBuildings |-> b]

\* the cleaning_logs collection of a store whose checkpoints carry the time
\* of their latest log: that log and, an hour before it, an older one
CleaningLogs(cps) ==
    UNION {{[checkpoint_id |-> c, created_at |-> t] :
               t \in {cps[c].last_cleaned_timestamp}
                      \cup (IF cps[c].last_cleaned_timestamp >= HourMs
                            THEN {cps[c].last_cleaned_timestamp - HourMs}
                            ELSE {})} :
           c \in {d \in DOMAIN cps : cps[d].last_cleaned_timestamp # Absent}}

\* checkpoints where building_id == buildingId
checkpointsSnap(cps, buildingId) ==
    SelectSeq([c \in 1..Len(cps) |-> [id |-> c, data |-> cps[c]]],
              LAMBDA d : d.data.building_id = buildingId)

\* the log query ordered the wrong way round: the oldest log
lastLogSnapAscending(logs, cpId) ==
    {l \in logs :
        /\ l.checkpoint_id = cpId
        /\ \A m \in logs : m.checkpoint_id = cpId => m.created_at >= l.created_at}

\* cleaning_logs where checkpoint_id == cpId, orderBy created_at desc, limit 1
lastLogSnap(logs, cpId) ==
    {l \in logs :
        /\ l.checkpoint_id = cpId
        /\ \A m \in logs : m.checkpoint_id = cpId => m.created_at <= l.created_at}

\* let lastCleanedAt = new Date(0); if (!lastLogSnap.empty) ...
lastCleanedAtOfLog(snap) ==
    IF snap = {} THEN 0 ELSE (CHOOSE l \in snap : TRUE).created_at

\* alerts where checkpoint_id == cpId, status OPEN, type SLA_MISSING_CLEAN
activeAlerts(als, cpId) ==
    {k \in DOMAIN als :
        /\ als[k].checkpoint_id = cpId
        /\ als[k].status = "OPEN"
        /\ als[k].type = "SLA_MISSING_CLEAN"}

\* the document of db.collection('alerts').add({...})
AddedAlert(buildingId, cpId, last, at) ==
    [building_id |-> buildingId,
     checkpoint_id |-> cpId,
     type |-> "SLA_MISSING_CLEAN",
     severity |-> "MEDIUM",
     status |-> "OPEN",
     created_at |-> at,
     last_cleaned_at |-> last]

\* the loop over checkpointsSnap.docs from position k on: acc holds the
\* alerts collection as the run sees it and the reads made
RECURSIVE ScanCheckpoints(_, _, _, _, _, _, _)
ScanCheckpoints(acc, docs, k, buildingId, logs, now, at) ==
    IF k > Len(docs) THEN acc
    ELSE LET cpId == docs[k].id
             last == lastCleanedAtOfLog(lastLogSnap(logs, cpId))
             breach == last < thresholdDate(now)
             add == breach /\ activeAlerts(acc.view, cpId) = {}
         IN  ScanCheckpoints(
                 [view |-> IF add
                           THEN Append(acc.view, AddedAlert(buildingId, cpId, last, at))
                           ELSE acc.view,
                  reads |-> acc.reads \o <<"cleaning_logs">>
                               \o (IF breach THEN <<"alerts">> ELSE <<>>)],
                 docs, k + 1, buildingId, logs, now, at)

\* the scheduler fires the predecessor: const now = new Date(); the
\* buildings query is issued
NestedStart(p) ==
    /\ inv[p].pc = "IDLE"
    /\ inv' = [inv EXCEPT ![p] = Enter([IdleInv EXCEPT !.now = clock], "BUILDINGS")]
    /\ UNCHANGED <<heap, sanitized, clock, checkpoints, alerts, runs, nServices, nClosures>>

\* await db.collection('buildings').get()
NestedBuildings(p) ==
    /\ inv[p].pc = "BUILDINGS"
    /\ inv' = [inv EXCEPT ![p] =
                  Enter([@ EXCEPT !.reads = Append(@, "buildings"), !.i = 0],
                        IF Len(Buildings) = 0 THEN "DONE" ELSE "SCAN")]
    /\ UNCHANGED <<heap, sanitized, clock, checkpoints, alerts, runs, nServices, nClosures>>

\* one iteration of the loop over the buildings: its checkpoints are read,
\* and for each the latest log, then, on a breach, its open alerts; the
\* alerts added are kept in the record of the run, apart from the store
NestedBuilding(p) ==
    /\ inv[p].pc = "SCAN"
    /\ LET buildingId == Buildings[inv[p].i + 1]
           docs == checkpointsSnap(checkpoints, buildingId)
           acc == ScanCheckpoints([view |-> alerts \o inv[p].added,
                                   reads |-> Append(inv[p].reads, "checkpoints")],
                                  docs, 1, buildingId, CleaningLogs(checkpoints),
                                  inv[p].now, clock)
       IN  inv' = [inv EXCEPT ![p] =
                      Enter([@ EXCEPT
                                !.added = SubSeq(acc.view, Len(alerts) + 1, Len(acc.view)),
                                !.reads = acc.reads,
                                !.i = @ + 1],
                            IF inv[p].i + 1 < Len(Buildings) THEN "SCAN" ELSE "DONE")]
    /\ UNCHANGED <<heap, sanitized, clock, checkpoints, alerts, runs, nServices, nClosures>>

\* one run of the predecessor, then one run of the function, on the same
\* store
NextEquivalence ==
    \/ NestedStart(2)
    \/ NestedBuildings(2)
    \/ NestedBuilding(2)
    \/ inv[2].pc = "DONE" /\ StartOnce
    \/ Step(1)

InitEquivalence == InitChunk \/ InitBoundary

SpecEquivalence == InitEquivalence /\ [][NextEquivalence]_vars

InitBatch == InitMany({BatchLimit + 1})

SpecBatch == InitBatch /\ [][NextOneRun]_vars

\* ================================================================ claims
OpenAlerts(c) ==
    {k \in DOMAIN alerts :
        /\ alerts[k].checkpoint_id = c
        /\ alerts[k].type = "SLA_MISSING_CLEAN"
        /\ alerts[k].status = "OPEN"}

OverdueIds(p) == {inv[p].overdue[k].id : k \in DOMAIN inv[p].overdue}

QueuedIds(p) == {inv[p].alertsToCreate[k].checkpointId : k \in DOMAIN inv[p].alertsToCreate}

\* C1: under single-flight invocations interleaved with service events and
\* alert closures, every checkpoint has at most one OPEN SLA_MISSING_CLEAN
\* alert in every reachable state of the store.
C1_AtMostOneOpenAlert ==
    \A c \in DOMAIN checkpoints : Cardinality(OpenAlerts(c)) <= 1

\* a later run has finished after skipping a checkpoint whose alert is open,
\* with a service event and a closure behind it
C1_Witness ==
    \E p \in Procs :
        /\ inv[p].pc = "DONE"
        /\ inv[p].run >= 2
        /\ inv[p].existingAlertsMap # {}
        /\ inv[p].alertsToCreate # <<>>
        /\ nServices > 0
        /\ nClosures > 0

\* run q directly follows run p, both completed, and no service event or
\* closure has happened since p started
InSuccession(p, q) ==
    /\ inv[p].pc = "DONE"
    /\ inv[q].pc = "DONE"
    /\ inv[q].run = inv[p].run + 1
    /\ nServices = inv[p].servicesAtStart
    /\ nClosures = inv[p].closuresAtStart

\* C2 as stated: after two completed runs in succession with no service
\* event or closure in between, every overdue checkpoint has exactly one
\* OPEN alert and the second run created zero alerts.
C2_Original ==
    \A p, q \in Procs :
        InSuccession(p, q) =>
            /\ \A c \in OverdueIds(q) : Cardinality(OpenAlerts(c)) = 1
            /\ inv[q].alertsToCreate = <<>>

\* C2 amended: after two completed runs in succession with no service event
\* or closure in between, every overdue checkpoint has exactly one OPEN
\* alert and the second run created no alert for a checkpoint that the
\* first run found overdue.
C2_IdempotentAlerting ==
    \A p, q \in Procs :
        InSuccession(p, q) =>
            /\ \A c \in OverdueIds(q) : Cardinality(OpenAlerts(c)) = 1
            /\ QueuedIds(q) \cap OverdueIds(p) = {}

\* the first run created alerts and the second skipped them
C2_Witness ==
    \E p, q \in Procs :
        /\ InSuccession(p, q)
        /\ inv[p].alertsToCreate # <<>>
        /\ inv[q].existingAlertsMap # {}

Completes(p) == inv[p].pc # "DONE" /\ inv'[p].pc = "DONE"

\* C3 as stated: at the step that completes an invocation, every checkpoint
\* its overdue query returned has at least one OPEN alert.
C3_Original ==
    [][\A p \in Procs :
          Completes(p) =>
              \A c \in {inv'[p].overdue[k].id : k \in DOMAIN inv'[p].overdue} :
                  \E k \in DOMAIN alerts' :
                      /\ alerts'[k].checkpoint_id = c
                      /\ alerts'[k].type = "SLA_MISSING_CLEAN"
                      /\ alerts'[k].status = "OPEN"]_vars

\* C3 amended: at the step that completes an invocation during which no
\* alert was closed externally, every checkpoint its overdue query returned
\* has at least one OPEN alert.
C3_NoSilentMiss ==
    [][\A p \in Procs :
          (Completes(p) /\ nClosures' = inv'[p].closuresAtStart) =>
              \A c \in {inv'[p].overdue[k].id : k \in DOMAIN inv'[p].overdue} :
                  \E k \in DOMAIN alerts' :
                      /\ alerts'[k].checkpoint_id = c
                      /\ alerts'[k].type = "SLA_MISSING_CLEAN"
                      /\ alerts'[k].status = "OPEN"]_vars

\* a run has completed with one overdue checkpoint skipped and one alerted,
\* no closure since it started
C3_Witness ==
    \E p \in Procs :
        /\ inv[p].pc = "DONE"
        /\ nClosures = inv[p].closuresAtStart
        /\ inv[p].existingAlertsMap # {}
        /\ inv[p].alertsToCreate # <<>>
        /\ \A c \in OverdueIds(p) : OpenAlerts(c) # {}

PastDedup(p) == inv[p].pc \in {"WRITE_ALERTS", "UPDATE_STATUS", "DONE"} /\ inv[p].overdue # <<>>

PastQuery(p) == inv[p].pc \in {"DEDUP", "WRITE_ALERTS", "UPDATE_STATUS", "DONE"}

\* C4: with the store fixed during the run, the overdue query has returned
\* exactly the active checkpoints cleaned more than the SLA before now (a
\* checkpoint cleaned exactly at the cutoff is not among them), and every
\* alert in the store is for an active checkpoint.
C4_OverdueExactly ==
    /\ \A p \in Procs :
          PastQuery(p) =>
              OverdueIds(p) =
                  {c \in DOMAIN checkpoints :
                      /\ checkpoints[c].is_active
                      /\ checkpoints[c].last_cleaned_timestamp # Absent
                      /\ inv[p].now - checkpoints[c].last_cleaned_timestamp
                             > DEFAULT_MAX_GAP_HOURS * HourMs}
    /\ \A k \in DOMAIN alerts : checkpoints[alerts[k].checkpoint_id].is_active

\* a completed run in which an active checkpoint cleaned exactly at the
\* cutoff was not flagged and one cleaned a millisecond earlier was alerted
C4_Witness ==
    \E p \in Procs : \E c, d \in DOMAIN checkpoints :
        /\ inv[p].pc = "DONE"
        /\ checkpoints[c].is_active
        /\ checkpoints[c].last_cleaned_timestamp = inv[p].threshold
        /\ c \notin OverdueIds(p)
        /\ checkpoints[d].is_active
        /\ checkpoints[d].last_cleaned_timestamp = inv[p].threshold - 1
        /\ d \in OverdueIds(p)
        /\ OpenAlerts(d) # {}

\* the ids that have an OPEN SLA_MISSING_CLEAN alert in the store
OpenAlertIds ==
    {alerts[k].checkpoint_id :
        k \in {j \in DOMAIN alerts : /\ alerts[j].type = "SLA_MISSING_CLEAN"
                                     /\ alerts[j].status = "OPEN"}}

DedupJustDone(p) ==
    \/ inv[p].pc = "WRITE_ALERTS"
    \/ inv[p].pc = "DONE" /\ inv[p].overdue # <<>> /\ inv[p].commits = <<>>

\* C5: when the deduplicator has finished (and nothing has been written
\* yet), the queued checkpoints are the overdue set minus the ids that have
\* an OPEN SLA_MISSING_CLEAN alert, whether one or several, and the number
\* of queued alerts is the size of that difference.
C5_DedupDifference ==
    \A p \in Procs :
        DedupJustDone(p) =>
            /\ QueuedIds(p) = OverdueIds(p) \ OpenAlertIds
            /\ Len(inv[p].alertsToCreate) = Cardinality(OverdueIds(p) \ OpenAlertIds)

\* the deduplicator has finished over three chunks, with overdue
\* checkpoints that have no, one and two open alerts
C5_Witness ==
    \E p \in Procs :
        /\ inv[p].pc = "WRITE_ALERTS"
        /\ Len(inv[p].dedupQueries) = 3
        /\ \E a, b, c \in Range(inv[p].dedupQueries[3]) :
              /\ Cardinality(OpenAlerts(a)) = 0
              /\ Cardinality(OpenAlerts(b)) = 1
              /\ Cardinality(OpenAlerts(c)) = 2

CeilDiv(n, d) == (n + d - 1) \div d

\* C6: once the chunk loop has ended, the deduplicator has issued
\* ceil(n / 10) existence queries for n overdue ids (3 for 25), each over 1
\* to 10 ids, pairwise disjoint and together covering every overdue id once.
C6_DedupChunking ==
    \A p \in Procs :
        PastDedup(p) =>
            LET q == inv[p].dedupQueries
                n == Len(inv[p].overdue)
            IN  /\ Len(q) = CeilDiv(n, 10)
                /\ n = 25 => Len(q) = 3
                /\ \A k \in DOMAIN q :
                      /\ Len(q[k]) \in 1..10
                      /\ Cardinality(Range(q[k])) = Len(q[k])
                /\ \A k, j \in DOMAIN q : k # j => Range(q[k]) \cap Range(q[j]) = {}
                /\ UNION {Range(q[k]) : k \in DOMAIN q} = OverdueIds(p)

\* 25 overdue ids have been deduplicated in 3 queries
C6_Witness ==
    \E p \in Procs :
        /\ PastDedup(p)
        /\ Len(inv[p].overdue) = 25
        /\ Len(inv[p].dedupQueries) = 3
        /\ Len(inv[p].dedupQueries[3]) = 5

\* C7: the step that receives an empty overdue snapshot ends the invocation
\* as DONE and changes nothing in the store; an invocation that ended on an
\* empty snapshot has issued no dedup query and no batch commit.
C7_EmptyShortCircuit ==
    /\ [][\A p \in Procs :
             (/\ inv[p].pc = "QUERY"
              /\ inv'[p].pc \notin {"QUERY", "FAILED"}
              /\ inv'[p].overdue = <<>>)
                 => /\ inv'[p].pc = "DONE"
                    /\ alerts' = alerts
                    /\ checkpoints' = checkpoints
                    /\ inv'[p].dedupQueries = <<>>
                    /\ inv'[p].commits = <<>>]_vars
    /\ [](\A p \in Procs :
             (inv[p].pc \notin {"IDLE", "QUERY", "FAILED"} /\ inv[p].overdue = <<>>)
                 => /\ inv[p].pc = "DONE"
                    /\ inv[p].dedupQueries = <<>>
                    /\ inv[p].commits = <<>>)

\* a run has ended on an empty snapshot while the store holds alerts
C7_Witness ==
    \E p \in Procs :
        /\ inv[p].pc = "DONE"
        /\ inv[p].overdue = <<>>
        /\ alerts # <<>>
        /\ \E c \in DOMAIN checkpoints : checkpoints[c].is_active

\* C8: the step that ends the chunk loop with every overdue checkpoint found
\* to have an OPEN alert ends the invocation as DONE and changes nothing in
\* the store; such an invocation has committed no batch.
C8_AllDuplicateShortCircuit ==
    /\ [][\A p \in Procs :
             (/\ inv[p].pc = "DEDUP"
              /\ inv'[p].pc \notin {"DEDUP", "FAILED"}
              /\ {inv[p].overdue[k].id : k \in DOMAIN inv[p].overdue}
                     \subseteq inv'[p].existingAlertsMap)
                 => /\ inv'[p].pc = "DONE"
                    /\ alerts' = alerts
                    /\ checkpoints' = checkpoints
                    /\ inv'[p].commits = <<>>]_vars
    /\ [](\A p \in Procs :
             (PastDedup(p) /\ OverdueIds(p) \subseteq inv[p].existingAlertsMap)
                 => /\ inv[p].pc = "DONE"
                    /\ inv[p].commits = <<>>)

\* a later run has ended with every overdue checkpoint a duplicate
C8_Witness ==
    \E p \in Procs :
        /\ inv[p].pc = "DONE"
        /\ inv[p].run >= 2
        /\ inv[p].overdue # <<>>
        /\ OverdueIds(p) \subseteq inv[p].existingAlertsMap
        /\ \A c \in OverdueIds(p) : OpenAlerts(c) # {}

\* C9 as stated: no batch commit of the watchdog holds more than 500 writes.
C9_BatchCeiling ==
    \A p \in Procs : \A k \in DOMAIN inv[p].commits :
        inv[p].commits[k].size <= BatchLimit

\* r hundredths is a nearest hundredth of ms / 1 hour
NearestHundredth(r, ms) ==
    LET rest == r - ((ms \div HourMs) * 100)
        diff == ((ms % HourMs) * 100) - (rest * HourMs)
    IN  /\ rest \in 0..100
        /\ 2 * diff <= HourMs
        /\ 2 * diff >= -HourMs

\* C10: with the store fixed during the run, every alert in the store has
\* hours_overdue equal to (now - last_cleaned_timestamp) / 1 hour rounded to
\* two decimals (5.00 for five hours) and sla_threshold_hours equal to the
\* SLA of the cutoff, 4.
C10_HoursOverdue ==
    \A p \in Procs :
        inv[p].pc \in {"UPDATE_STATUS", "DONE"} =>
            /\ Len(alerts) = Len(inv[p].alertsToCreate)
            /\ \A k \in DOMAIN alerts :
                  LET ms == inv[p].now
                              - checkpoints[alerts[k].checkpoint_id].last_cleaned_timestamp
                  IN  /\ NearestHundredth(alerts[k].hours_overdue, ms)
                      /\ ms = 5 * HourMs => alerts[k].hours_overdue = 500
                      /\ alerts[k].sla_threshold_hours = 4
                      /\ inv[p].threshold
                            = inv[p].now - (alerts[k].sla_threshold_hours * HourMs)

\* an alert for a checkpoint cleaned five hours before now reads 5.00 and 4,
\* next to one whose hours were rounded up
C10_Witness ==
    \E p \in Procs : \E k, j \in DOMAIN alerts :
        /\ inv[p].pc = "DONE"
        /\ inv[p].now - checkpoints[alerts[k].checkpoint_id].last_cleaned_timestamp
              = 5 * HourMs
        /\ alerts[k].hours_overdue = 500
        /\ alerts[k].sla_threshold_hours = 4
        /\ alerts[j].hours_overdue = 467

\* the alerts in the store of the checkpoints never serviced: the
\* last_cleaned_timestamp is absent or the epoch
NeverServicedAlerts ==
    {k \in DOMAIN alerts :
        checkpoints[alerts[k].checkpoint_id].last_cleaned_timestamp \in {Absent, 0}}

\* C11 as stated: the alert of a checkpoint whose last_cleaned_timestamp is
\* absent or the epoch has hours_overdue 0, and last_cleaned_at "never" when
\* that field is absent.
C11_Original ==
    \A p \in Procs :
        inv[p].pc \in {"UPDATE_STATUS", "DONE"} =>
            \A k \in NeverServicedAlerts :
                /\ alerts[k].hours_overdue = 0
                /\ checkpoints[alerts[k].checkpoint_id].last_cleaned_at = Absent
                      => alerts[k].last_cleaned_at = Never

\* C11: a missing last-cleaned instant is taken as the epoch, not as "no
\* hours": the alert of a checkpoint cleaned at the epoch has hours_overdue
\* equal to now / 1 hour rounded to two decimals, which is at least the SLA; a
\* checkpoint without the last_cleaned_timestamp field is not returned by
\* the overdue query and gets no alert; last_cleaned_at is "never" exactly
\* when the checkpoint has no last_cleaned_at field.
C11_NeverServiced ==
    \A p \in Procs :
        inv[p].pc \in {"UPDATE_STATUS", "DONE"} =>
            /\ \A k \in NeverServicedAlerts :
                  /\ checkpoints[alerts[k].checkpoint_id].last_cleaned_timestamp = 0
                  /\ NearestHundredth(alerts[k].hours_overdue, inv[p].now)
                  /\ alerts[k].hours_overdue >= DEFAULT_MAX_GAP_HOURS * 100
            /\ \A k \in DOMAIN alerts :
                  (alerts[k].last_cleaned_at = Never)
                     <=> (checkpoints[alerts[k].checkpoint_id].last_cleaned_at = Absent)
            /\ hoursOverdue(inv[p].now, [last_cleaned_timestamp |-> Absent])
                  = ToFixed2(inv[p].now)

\* a run ended with an alert for a checkpoint cleaned at the epoch and
\* without last_cleaned_at: "never", and the hours since the epoch
\* (4 h 20 min gives 4.33), next to a checkpoint without timestamp that got
\* no alert
C11_Witness ==
    \E p \in Procs : \E k \in DOMAIN alerts : \E c \in DOMAIN checkpoints :
        /\ inv[p].pc = "DONE"
        /\ checkpoints[alerts[k].checkpoint_id].last_cleaned_timestamp = 0
        /\ checkpoints[alerts[k].checkpoint_id].last_cleaned_at = Absent
        /\ alerts[k].last_cleaned_at = Never
        /\ alerts[k].hours_overdue = 433
        /\ checkpoints[c].is_active
        /\ checkpoints[c].last_cleaned_timestamp = Absent
        /\ OpenAlerts(c) = {}

\* the step in which the call awaited at the stage rejects
FailsAt(p, stage) == inv[p].pc = stage /\ inv'[p].pc = "FAILED"

\* the invocation ended FAILED, and at that stage
FailedAt(p, stage) ==
    /\ inv[p].pc = "FAILED"
    /\ inv[p].stages[Len(inv[p].stages) - 1] = stage

\* C12: the step in which the status commit fails after the alert batch was
\* committed ends the invocation FAILED, with the alert commit its only
\* write; it leaves the alerts in the store (every queued alert is there,
\* OPEN unless closed from outside since the start) and writes no checkpoint.
C12_PartialSuccess ==
    [][\A p \in Procs :
          FailsAt(p, "UPDATE_STATUS") =>
              /\ alerts' = alerts
              /\ checkpoints' = checkpoints
              /\ inv'[p].commits
                    = <<[kind |-> "alerts", size |-> Len(inv[p].alertsToCreate)]>>
              /\ \A j \in DOMAIN inv[p].alertsToCreate :
                    \E k \in DOMAIN alerts' :
                        /\ alerts'[k].checkpoint_id = inv[p].alertsToCreate[j].checkpointId
                        /\ alerts'[k].hours_overdue = inv[p].alertsToCreate[j].hoursOverdue
                        /\ alerts'[k].created_at >= inv[p].now
                        /\ \/ alerts'[k].status = "OPEN"
                           \/ nClosures > inv[p].closuresAtStart]_vars

\* an invocation FAILED at the status commit: its alerts are in the store,
\* OPEN, and none of their checkpoints is OVERDUE
C12_Witness ==
    \E p \in Procs :
        /\ FailedAt(p, "UPDATE_STATUS")
        /\ inv[p].alertsToCreate # <<>>
        /\ \A c \in QueuedIds(p) :
              /\ OpenAlerts(c) # {}
              /\ checkpoints[c].current_status # "OVERDUE"

\* C13: when an invocation failed at the status commit after committing its
\* alerts and the next invocation has completed, with no service event and
\* no alert closure since the first began, every checkpoint the first
\* alerted has current_status OVERDUE.
C13_SelfHealing ==
    \A p, q \in Procs :
        (/\ FailedAt(p, "UPDATE_STATUS")
         /\ inv[q].pc = "DONE"
         /\ inv[q].run = inv[p].run + 1
         /\ nServices = inv[p].servicesAtStart
         /\ nClosures = inv[p].closuresAtStart)
            => \A c \in QueuedIds(p) : checkpoints[c].current_status = "OVERDUE"

\* a step of the invocation in which the awaited call did not return: every
\* call that returns is logged as a read or as a commit
Rejected(p) ==
    /\ Running(p)
    /\ inv'[p] # inv[p]
    /\ inv'[p].reads = inv[p].reads
    /\ inv'[p].commits = inv[p].commits

\* a terminated invocation does nothing more: its record changes only when
\* the scheduler starts the next run in its place
StaysEnded(p) == inv'[p] = inv[p] \/ inv'[p].run > inv[p].run

\* C14: when the overdue-checkpoint query fails the invocation ends FAILED
\* straight from QUERY, having issued no dedup query and made no commit; the
\* step writes no alert and no checkpoint, and the invocation does nothing
\* afterwards.
C14_QueryFailure ==
    [][\A p \in Procs :
          /\ (inv[p].pc = "QUERY" /\ Rejected(p)) =>
                /\ inv'[p].stages = <<"START", "THRESHOLD", "QUERY", "FAILED">>
                /\ inv'[p].pc = "FAILED"
                /\ inv'[p].dedupQueries = <<>>
                /\ inv'[p].commits = <<>>
                /\ alerts' = alerts
                /\ checkpoints' = checkpoints
          /\ FailedAt(p, "QUERY") =>
                /\ StaysEnded(p)
                /\ inv[p].dedupQueries = <<>>
                /\ inv[p].commits = <<>>]_vars

\* an invocation FAILED at the overdue query while an active checkpoint was
\* past the cutoff and the store held no alert
C14_Witness ==
    \E p \in Procs : \E c \in DOMAIN checkpoints :
        /\ FailedAt(p, "QUERY")
        /\ IsOverdue(checkpoints[c], inv[p].threshold)
        /\ inv[p].reads = <<>>
        /\ alerts = <<>>

\* C15: when a chunk existence query fails, whichever chunk it is, the
\* invocation ends FAILED from DEDUP with no alert queued, no commit made and
\* the store untouched, and does nothing afterwards; an invocation enters
\* WRITE_ALERTS only with the answers of all ceil(n / 10) chunks.
C15_ChunkFailure ==
    [][\A p \in Procs :
          /\ (inv[p].pc = "DEDUP" /\ Rejected(p)) =>
                /\ inv'[p].pc = "FAILED"
                /\ inv'[p].alertsToCreate = <<>>
                /\ inv'[p].commits = <<>>
                /\ alerts' = alerts
                /\ checkpoints' = checkpoints
          /\ FailedAt(p, "DEDUP") => (StaysEnded(p) /\ inv[p].commits = <<>>)
          /\ inv'[p].pc = "WRITE_ALERTS" =>
                /\ Len(inv'[p].dedupQueries)
                      = CeilDiv(Len(inv'[p].overdue), chunkSize)
                /\ UNION {Range(inv'[p].dedupQueries[k]) :
                              k \in DOMAIN inv'[p].dedupQueries}
                      = {inv'[p].overdue[k].id : k \in DOMAIN inv'[p].overdue}]_vars

\* an invocation over more than two chunks FAILED at the middle one: one
\* chunk was answered, nothing was queued or written
C15_Witness ==
    \E p \in Procs :
        /\ FailedAt(p, "DEDUP")
        /\ Len(inv[p].overdue) > 2 * chunkSize
        /\ Len(inv[p].dedupQueries) = 1
        /\ inv[p].alertsToCreate = <<>>
        /\ inv[p].commits = <<>>

\* the record of an invocation every stage of which completed: the overdue
\* query returned, then, unless it was empty, every chunk query, then,
\* unless nothing was queued, the alert commit and the status commit
CompletedEveryStage(r) ==
    /\ r.reads = <<"checkpoints">> \o [k \in DOMAIN r.dedupQueries |-> "alerts"]
    /\ Len(r.dedupQueries) = CeilDiv(Len(r.overdue), chunkSize)
    /\ r.alertsToCreate = BuildAlertsToCreate(r.overdue, r.existingAlertsMap, r.now)
    /\ r.commits = IF r.alertsToCreate = <<>> THEN <<>>
                   ELSE <<[kind |-> "alerts", size |-> Len(r.alertsToCreate)],
                          [kind |-> "status", size |-> Len(r.alertsToCreate)]>>

\* C16: a rejected call, at the overdue query, a chunk query, the alert
\* commit or the status commit, always ends the invocation FAILED, and a
\* FAILED invocation never turns into a success; an invocation is DONE only
\* when every stage it entered completed.
C16_NoErrorSwallowed ==
    [][\A p \in Procs :
          /\ Rejected(p) =>
                /\ inv'[p].pc = "FAILED"
                /\ inv'[p].stages = Append(inv[p].stages, "FAILED")
          /\ inv[p].pc = "FAILED" => StaysEnded(p)
          /\ inv[p].pc = "DONE" => CompletedEveryStage(inv[p])
          /\ inv'[p].pc = "DONE" => CompletedEveryStage(inv'[p])]_vars

\* one invocation FAILED at its status commit, the next one DONE after both
\* of its commits
C16_Witness ==
    \E p, q \in Procs :
        /\ FailedAt(p, "UPDATE_STATUS")
        /\ inv[q].pc = "DONE"
        /\ inv[q].run > inv[p].run
        /\ Len(inv[q].commits) = 2

\* C17: the step in which the alert commit fails ends the invocation FAILED
\* with no commit made, leaves the alerts and the checkpoints of the store as
\* they were, and leaves no OPEN alert for any checkpoint the invocation had
\* queued; the invocation does nothing afterwards.
C17_AbortWithoutEffect ==
    [][\A p \in Procs :
          /\ (inv[p].pc = "WRITE_ALERTS" /\ Rejected(p)) =>
                /\ inv'[p].pc = "FAILED"
                /\ inv'[p].commits = <<>>
                /\ alerts' = alerts
                /\ checkpoints' = checkpoints
                /\ \A k \in DOMAIN alerts' :
                      alerts'[k].status = "OPEN"
                         => alerts'[k].checkpoint_id \notin QueuedIds(p)
          /\ FailedAt(p, "WRITE_ALERTS") =>
                (StaysEnded(p) /\ inv[p].commits = <<>>)]_vars

\* an invocation FAILED at the alert commit with alerts queued: none of
\* their checkpoints has an OPEN alert or the status OVERDUE
C17_Witness ==
    \E p \in Procs :
        /\ FailedAt(p, "WRITE_ALERTS")
        /\ inv[p].alertsToCreate # <<>>
        /\ \A c \in QueuedIds(p) :
              /\ OpenAlerts(c) = {}
              /\ checkpoints[c].current_status # "OVERDUE"

\* the stages of an invocation no call of which fails and that finds
\* something to write
StagePath ==
    <<"START", "THRESHOLD", "QUERY", "DEDUP", "WRITE_ALERTS", "UPDATE_STATUS", "DONE">>

\* the stages in which the invocation awaits the store
AwaitingStages == {"QUERY", "DEDUP", "WRITE_ALERTS", "UPDATE_STATUS"}

\* the stages entered so far are a prefix of the path, possibly ended by
\* FAILED after an awaiting stage or by DONE after QUERY (empty result) or
\* DEDUP (nothing queued); r.pc is the last of them
LegalStages(r) ==
    \/ r.pc = "IDLE" /\ r.stages = <<>>
    \/ \E n \in DOMAIN StagePath :
          /\ r.stages = SubSeq(StagePath, 1, n)
          /\ r.pc = StagePath[n]
          /\ r.pc \in AwaitingStages \cup {"DONE"}
    \/ \E n \in DOMAIN StagePath :
          /\ StagePath[n] \in AwaitingStages
          /\ r.stages = Append(SubSeq(StagePath, 1, n), "FAILED")
          /\ r.pc = "FAILED"
    \/ \E n \in DOMAIN StagePath :
          /\ r.stages = Append(SubSeq(StagePath, 1, n), "DONE")
          /\ r.pc = "DONE"
          /\ \/ StagePath[n] = "QUERY" /\ r.overdue = <<>>
             \/ /\ StagePath[n] = "DEDUP"
                /\ r.overdue # <<>>
                /\ r.alertsToCreate = <<>>

\* what an invocation has behind it in each stage: the stage before
\* completed, and no query or commit was issued twice
StageEvidence(r) ==
    LET entered(s) == \E k \in DOMAIN r.stages : r.stages[k] = s
        n == Len(r.overdue)
    IN  /\ entered("DEDUP") => (r.reads # <<>> /\ r.reads[1] = "checkpoints" /\ n > 0)
        /\ \A k \in DOMAIN r.reads : k > 1 => r.reads[k] = "alerts"
        /\ Len(r.reads) <= 1 + CeilDiv(n, chunkSize)
        /\ entered("WRITE_ALERTS") =>
              /\ Len(r.reads) = 1 + CeilDiv(n, chunkSize)
              /\ r.alertsToCreate # <<>>
        /\ ~entered("UPDATE_STATUS") => r.commits = <<>>
        /\ entered("UPDATE_STATUS") =>
              /\ Len(r.commits) \in {1, 2}
              /\ r.commits[1].kind = "alerts"
              /\ Len(r.commits) = 2 <=> r.pc = "DONE"
              /\ Len(r.commits) = 2 => r.commits[2].kind = "status"

\* C18: every invocation has entered its stages in the order START,
\* THRESHOLD, QUERY, DEDUP, WRITE_ALERTS, UPDATE_STATUS, DONE, each once and
\* each after the stage before it completed, with no query or commit issued
\* twice; it is DONE early only after QUERY with an empty result or after
\* DEDUP with nothing queued; and in every stage in which it awaits the store
\* the step to FAILED is possible.
C18_StageOrder ==
    \A p \in Procs :
        /\ LegalStages(inv[p])
        /\ StageEvidence(inv[p])
        /\ inv[p].pc \in AwaitingStages => ENABLED Fail(p)

\* one invocation went through every stage to DONE, another one FAILED at
\* the alert commit
C18_Witness ==
    \E p, q \in Procs :
        /\ inv[p].stages = StagePath
        /\ inv[q].stages = <<"START", "THRESHOLD", "QUERY", "DEDUP",
                             "WRITE_ALERTS", "FAILED">>

\* the number of reads the invocation has made of the collection
ReadsOf(r, coll) == Cardinality({k \in DOMAIN r.reads : r.reads[k] = coll})

\* C19: whatever the number of checkpoints, an invocation reads only the
\* checkpoints and the alerts collections, never buildings or cleaning_logs;
\* it queries checkpoints once (exactly once as soon as the query returned)
\* and alerts at most ceil(n / 10) times for n overdue checkpoints, exactly
\* that often once the chunk loop has ended.
C19_NoFanOut ==
    \A p \in Procs :
        LET r == inv[p]
            n == Len(r.overdue)
        IN  /\ \A k \in DOMAIN r.reads : r.reads[k] \in {"checkpoints", "alerts"}
            /\ ReadsOf(r, "buildings") = 0
            /\ ReadsOf(r, "cleaning_logs") = 0
            /\ ReadsOf(r, "checkpoints") <= 1
            /\ ReadsOf(r, "alerts") <= CeilDiv(n, chunkSize)
            /\ (r.pc \in {"DEDUP", "WRITE_ALERTS", "UPDATE_STATUS", "DONE"}
                   \/ r.dedupQueries # <<>>)
                  => ReadsOf(r, "checkpoints") = 1
            /\ (r.pc \in {"WRITE_ALERTS", "UPDATE_STATUS"}
                   \/ (r.pc = "DONE" /\ n > 0))
                  => ReadsOf(r, "alerts") = CeilDiv(n, chunkSize)
            /\ Len(r.reads) = ReadsOf(r, "checkpoints") + Len(r.dedupQueries)

\* an invocation DONE over more than two chunks of overdue checkpoints in
\* more than one building: one read of checkpoints, three of alerts
C19_Witness ==
    \E p \in Procs :
        /\ inv[p].pc = "DONE"
        /\ Len(inv[p].overdue) > 2 * chunkSize
        /\ Cardinality({inv[p].overdue[k].data.building_id :
                            k \in DOMAIN inv[p].overdue}) > 1
        /\ inv[p].reads = <<"checkpoints", "alerts", "alerts", "alerts">>

\* C20: every step of an invocation, overlapping ones included, leaves the
\* alerts already in the store exactly as they were and in place; what it
\* adds are SLA_MISSING_CLEAN alerts with status OPEN and severity MEDIUM; an
\* OPEN alert stops being OPEN only in a step of the environment, a closure.
C20_AlertsOnlyAdded ==
    [][/\ inv' # inv =>
             /\ Len(alerts') >= Len(alerts)
             /\ SubSeq(alerts', 1, Len(alerts)) = alerts
             /\ \A k \in (Len(alerts) + 1)..Len(alerts') :
                   /\ alerts'[k].type = "SLA_MISSING_CLEAN"
                   /\ alerts'[k].status = "OPEN"
                   /\ alerts'[k].severity = "MEDIUM"
       /\ \A k \in DOMAIN alerts :
             (alerts[k].status = "OPEN"
                /\ (k \notin DOMAIN alerts' \/ alerts'[k].status # "OPEN"))
                => (inv' = inv /\ nClosures' = nClosures + 1)]_vars

\* an invocation has just committed an alert for a checkpoint that already
\* had a CLOSED one, next to the OPEN alert of another checkpoint: both
\* older alerts are still there
C20_Witness ==
    \E p \in Procs : \E k, j, m \in DOMAIN alerts :
        /\ inv[p].pc = "UPDATE_STATUS"
        /\ k < m /\ j < m
        /\ alerts[k].status = "CLOSED"
        /\ alerts[j].status = "OPEN"
        /\ alerts[j].checkpoint_id # alerts[k].checkpoint_id
        /\ alerts[m].checkpoint_id = alerts[k].checkpoint_id
        /\ alerts[m].status = "OPEN"
        /\ alerts[m].checkpoint_id \in QueuedIds(p)

\* C21: a step of an invocation, overlapping ones included, keeps every
\* checkpoint in the store with its is_active, building_id,
\* last_cleaned_timestamp and last_cleaned_at; a checkpoint it changes gets
\* current_status OVERDUE and the update stamp, nothing else. In every step
\* of the system last_cleaned_timestamp does not decrease, and an OVERDUE
\* status is cleared only by a service event of the verification pipeline.
C21_CheckpointFrame ==
    [][/\ DOMAIN checkpoints' = DOMAIN checkpoints
       /\ \A c \in DOMAIN checkpoints :
             LET old == checkpoints[c]
                 new == checkpoints'[c]
             IN  /\ inv' # inv =>
                       /\ new.is_active = old.is_active
                       /\ new.building_id = old.building_id
                       /\ new.last_cleaned_timestamp = old.last_cleaned_timestamp
                       /\ new.last_cleaned_at = old.last_cleaned_at
                       /\ new # old =>
                             /\ new.current_status = "OVERDUE"
                             /\ new.updated_at = clock
                             /\ new = [old EXCEPT !.current_status = "OVERDUE",
                                                  !.updated_at = clock]
                 /\ new.last_cleaned_timestamp >= old.last_cleaned_timestamp
                 /\ (old.current_status = "OVERDUE" /\ new.current_status # "OVERDUE")
                       => (inv' = inv /\ nServices' = nServices + 1)]_vars

\* an invocation is DONE after its status commit: a checkpoint it alerted
\* is OVERDUE and stamped, still active and with the last cleaning it had
C21_Witness ==
    \E p \in Procs : \E c \in QueuedIds(p) :
        /\ inv[p].pc = "DONE"
        /\ Len(inv[p].commits) = 2
        /\ checkpoints[c].current_status = "OVERDUE"
        /\ checkpoints[c].updated_at >= inv[p].now
        /\ checkpoints[c].updated_at > 0
        /\ checkpoints[c].is_active
        /\ checkpoints[c].last_cleaned_timestamp = 0
        /\ checkpoints[c].last_cleaned_at = 0

\* C22: a checkpoint has two OPEN SLA_MISSING_CLEAN alerts only after an
\* invocation was started while another one was running; as long as no
\* invocation has overlapped another, every checkpoint has at most one.
C22_RaceOnlyWhenOverlapping ==
    \A c \in DOMAIN checkpoints :
        Cardinality(OpenAlerts(c)) >= 2 => \E p \in Procs : inv[p].overlapped

\* two invocations in flight together have both found no OPEN alert for a
\* checkpoint and both committed one: the checkpoint has two OPEN alerts
C22_Witness ==
    \E c \in DOMAIN checkpoints : \E p, q \in Procs :
        /\ p # q
        /\ inv[q].run = inv[p].run + 1
        /\ inv[q].overlapped
        /\ c \in QueuedIds(p) \cap QueuedIds(q)
        /\ c \notin inv[p].existingAlertsMap \cup inv[q].existingAlertsMap
        /\ inv[p].commits # <<>>
        /\ inv[q].commits # <<>>
        /\ Cardinality(OpenAlerts(c)) = 2

\* the checkpoints of the alerts the invocation wrote, the last ones of the
\* store when no other invocation writes
CreatedIds(p) ==
    {alerts[k].checkpoint_id :
        k \in (Len(alerts) - Len(inv[p].alertsToCreate) + 1)..Len(alerts)}

\* C23: the step that writes checkpoint statuses is taken by an invocation
\* whose alert batch is committed (its one commit so far, the alerts being in
\* the store); it sets to OVERDUE, with the update stamp, exactly the
\* checkpoints that invocation created an alert for and leaves every other
\* checkpoint, the overdue ones skipped as duplicates included, as it was.
C23_StatusAfterAlertsAndScope ==
    [][\A p \in Procs :
          (Len(inv'[p].commits) > Len(inv[p].commits)
             /\ inv'[p].commits[Len(inv'[p].commits)].kind = "status") =>
              /\ inv[p].pc = "UPDATE_STATUS"
              /\ inv[p].commits
                    = <<[kind |-> "alerts", size |-> Len(inv[p].alertsToCreate)]>>
              /\ Len(alerts) >= Len(inv[p].alertsToCreate)
              /\ CreatedIds(p) = QueuedIds(p)
              /\ Cardinality(CreatedIds(p)) = Len(inv[p].alertsToCreate)
              /\ alerts' = alerts
              /\ \A c \in DOMAIN checkpoints :
                    IF c \in CreatedIds(p)
                    THEN checkpoints'[c] = [checkpoints[c] EXCEPT
                                               !.current_status = "OVERDUE",
                                               !.updated_at = clock]
                    ELSE checkpoints'[c] = checkpoints[c]]_vars

\* an invocation is DONE after both commits: the checkpoints it alerted are
\* OVERDUE, and an overdue checkpoint it skipped as a duplicate is not
C23_Witness ==
    \E p \in Procs : \E c, d \in OverdueIds(p) :
        /\ inv[p].pc = "DONE"
        /\ Len(inv[p].commits) = 2
        /\ c \in QueuedIds(p)
        /\ checkpoints[c].current_status = "OVERDUE"
        /\ d \in inv[p].existingAlertsMap
        /\ d \notin QueuedIds(p)
        /\ checkpoints[d].current_status # "OVERDUE"
        /\ checkpoints[d].updated_at = 0

\* C24: an invocation takes now at its start, the time of the store then,
\* and its cutoff is now - 4 h; neither changes while it runs, however far
\* the clock moves. The overdue query returns the active checkpoints cleaned
\* before that cutoff, and every alert the invocation writes has
\* hours_overdue equal to (that now - the last cleaning the query returned)
\* / 1 hour rounded to two decimals.
C24_SingleInstant ==
    [][\A p \in Procs :
          /\ inv'[p].run # inv[p].run =>
                /\ inv'[p].now = clock
                /\ inv'[p].threshold = clock - (4 * HourMs)
          /\ inv'[p].run = inv[p].run =>
                /\ inv'[p].now = inv[p].now
                /\ inv'[p].threshold = inv[p].threshold
          /\ Len(inv'[p].reads) = 1 /\ inv[p].reads = <<>> =>
                {inv'[p].overdue[k].id : k \in DOMAIN inv'[p].overdue}
                   = {c \in DOMAIN checkpoints :
                         /\ checkpoints[c].is_active
                         /\ checkpoints[c].last_cleaned_timestamp # Absent
                         /\ checkpoints[c].last_cleaned_timestamp
                               < inv[p].now - (4 * HourMs)}
          /\ Len(inv'[p].commits) = 1 /\ inv[p].commits = <<>> =>
                /\ Len(alerts') = Len(alerts) + Len(inv[p].alertsToCreate)
                /\ \A k \in (Len(alerts) + 1)..Len(alerts') :
                      \E j \in DOMAIN inv[p].overdue :
                          /\ inv[p].overdue[j].id = alerts'[k].checkpoint_id
                          /\ NearestHundredth(
                                 alerts'[k].hours_overdue,
                                 inv[p].now
                                    - inv[p].overdue[j].data.last_cleaned_timestamp)]_vars

\* an invocation that began at 5 h committed its alert after the clock had
\* moved on: the alert reads 5.00 hours for a checkpoint cleaned at the epoch
C24_Witness ==
    \E p \in Procs : \E k \in DOMAIN alerts :
        /\ inv[p].pc \in {"UPDATE_STATUS", "DONE"}
        /\ inv[p].now = 5 * HourMs
        /\ clock > inv[p].now
        /\ alerts[k].created_at > inv[p].now
        /\ alerts[k].checkpoint_id \in QueuedIds(p)
        /\ checkpoints[alerts[k].checkpoint_id].last_cleaned_timestamp = 0
        /\ alerts[k].hours_overdue = 500

\* existingAlertsMap as the chunk loop of the function leaves it: the
\* chunks joined one after the other from offset i on
RECURSIVE SequentialMap(_, _, _, _)
SequentialMap(map, als, ids, i) ==
    IF i >= Len(ids) THEN map
    ELSE SequentialMap(MapAfterChunk(map, als, SliceChunk(ids, i)), als, ids,
                       i + chunkSize)

\* C25: with the store fixed during the run and the chunk queries answered
\* in any order, once all answers are joined the map and the queue are those
\* of the sequential loop: the checkpoints let through are the overdue ones
\* without an OPEN alert, whatever the order.
C25_ChunkOrderIndependence ==
    \A p \in Procs :
        PastDedup(p) =>
            LET seq == SequentialMap({}, alerts, checkpointIds(inv[p].overdue), 0)
            IN  (inv[p].commits = <<>>) =>
                    /\ inv[p].existingAlertsMap = seq
                    /\ inv[p].alertsToCreate
                          = BuildAlertsToCreate(inv[p].overdue, seq, inv[p].now)
                    /\ QueuedIds(p) = {c \in OverdueIds(p) : OpenAlerts(c) = {}}

\* the chunk at offset 20 was answered first and the one at offset 0 last;
\* some checkpoints were let through and some were not
C25_Witness ==
    \E p \in Procs :
        /\ PastDedup(p)
        /\ inv[p].commits = <<>>
        /\ Len(inv[p].dedupQueries) = 3
        /\ inv[p].dedupQueries[1] = SliceChunk(checkpointIds(inv[p].overdue), 2 * chunkSize)
        /\ inv[p].dedupQueries[3] = SliceChunk(checkpointIds(inv[p].overdue), 0)
        /\ inv[p].existingAlertsMap # {}
        /\ QueuedIds(p) # {}
        /\ \E c \in inv[p].existingAlertsMap : c \in Range(inv[p].dedupQueries[1])
        /\ \E c \in inv[p].existingAlertsMap : c \in Range(inv[p].dedupQueries[3])

\* the invocation has ended
Ended(p) == inv[p].pc \in {"DONE", "FAILED"}

\* in each stage the step of the invocation is the answer to its own store
\* call, possible whatever else the state holds
OwnCallOnly(p) ==
    /\ inv[p].pc = "QUERY" => ENABLED OverdueQuery(p)
    /\ inv[p].pc = "DEDUP" => ENABLED ChunkQuery(p)
    /\ inv[p].pc = "WRITE_ALERTS" => ENABLED CommitAlerts(p)
    /\ inv[p].pc = "UPDATE_STATUS" => ENABLED CommitStatus(p)

\* C26: when the store answers every call, an invocation that has started
\* ends DONE or FAILED; its chunk loop never makes more than ceil(n / 10)
\* iterations for n overdue checkpoints, and in every stage its next step
\* waits for nothing but the answer to its own call.
C26_Termination ==
    \A p \in Procs :
        /\ Running(p) ~> Ended(p)
        /\ [](Len(inv[p].dedupQueries) <= CeilDiv(Len(inv[p].overdue), chunkSize))
        /\ []OwnCallOnly(p)

\* an invocation over more than two chunks of overdue checkpoints is DONE
\* after three iterations of the chunk loop and both commits
C26_Witness ==
    \E p \in Procs :
        /\ inv[p].pc = "DONE"
        /\ Len(inv[p].overdue) > 2 * chunkSize
        /\ Len(inv[p].dedupQueries) = 3
        /\ Len(inv[p].commits) = 2

\* C27: at the step in which an invocation writes statuses, every checkpoint
\* it sets to OVERDUE has, in the store at that moment, a
\* last_cleaned_timestamp before the cutoff of the invocation; and at the
\* step in which it writes alerts, so has every checkpoint that gets one: a
\* checkpoint serviced since the overdue query is neither alerted nor
\* overwritten.
C27_NoOverwriteOfService ==
    [][\A p \in Procs :
          /\ (Len(inv'[p].commits) = 2 /\ Len(inv[p].commits) = 1) =>
                \A c \in DOMAIN checkpoints :
                    checkpoints'[c] # checkpoints[c] =>
                        checkpoints[c].last_cleaned_timestamp < inv[p].threshold
          /\ (Len(inv'[p].commits) = 1 /\ inv[p].commits = <<>>) =>
                \A k \in (Len(alerts) + 1)..Len(alerts') :
                    checkpoints[alerts'[k].checkpoint_id].last_cleaned_timestamp
                       < inv[p].threshold]_vars

\* the alerts the latest invocation wrote, when no other one ran with it
WrittenBy(p) ==
    {k \in DOMAIN alerts : k > Len(alerts) - Len(inv[p].alertsToCreate)}

\* the latest invocation is DONE and the environment has done nothing to
\* the store since it began
RanUndisturbed(p) ==
    /\ inv[p].pc = "DONE"
    /\ inv[p].run = runs
    /\ nServices = inv[p].servicesAtStart
    /\ nClosures = inv[p].closuresAtStart

\* C28: after an undisturbed single-flight invocation is DONE, every active
\* overdue checkpoint whose earlier alerts are all CLOSED (or that had none)
\* has exactly one OPEN alert, written by this invocation, and the status
\* OVERDUE: a closed alert does not suppress the new one.
C28_ReAlertAfterClosure ==
    \A p \in Procs :
        RanUndisturbed(p) =>
            \A c \in DOMAIN checkpoints :
                (/\ IsOverdue(checkpoints[c], inv[p].threshold)
                 /\ \A k \in DOMAIN alerts \ WrittenBy(p) :
                       alerts[k].checkpoint_id = c => alerts[k].status = "CLOSED")
                    => /\ Cardinality(OpenAlerts(c)) = 1
                       /\ OpenAlerts(c) \subseteq WrittenBy(p)
                       /\ Len(inv[p].commits) = 2
                       /\ checkpoints[c].current_status = "OVERDUE"

\* the alert of an overdue checkpoint was closed and the next invocation is
\* DONE: the checkpoint has the CLOSED alert and one new OPEN alert, and is
\* OVERDUE
C28_Witness ==
    \E p \in Procs : \E k, m \in DOMAIN alerts :
        /\ RanUndisturbed(p)
        /\ inv[p].run > 1
        /\ k < m
        /\ alerts[k].status = "CLOSED"
        /\ alerts[m].checkpoint_id = alerts[k].checkpoint_id
        /\ alerts[m].status = "OPEN"
        /\ m \in WrittenBy(p)
        /\ Cardinality(OpenAlerts(alerts[k].checkpoint_id)) = 1
        /\ checkpoints[alerts[k].checkpoint_id].current_status = "OVERDUE"

\* every checkpoint of the store is active, belongs to a building of the
\* store, has been cleaned, and carries the time of its latest cleaning log
DenormalizedStore ==
    \A c \in DOMAIN checkpoints :
        /\ checkpoints[c].is_active
        /\ checkpoints[c].building_id \in Range(Buildings)
        /\ checkpoints[c].last_cleaned_timestamp # Absent
        /\ \E l \in CleaningLogs(checkpoints) :
              /\ l.checkpoint_id = c
              /\ l.created_at = checkpoints[c].last_cleaned_timestamp
              /\ \A m \in CleaningLogs(checkpoints) :
                    m.checkpoint_id = c => m.created_at <= l.created_at

\* the checkpoints the predecessor added an alert for
AddedIds(p) == {inv[p].added[k].checkpoint_id : k \in DOMAIN inv[p].added}

\* the checkpoints the function wrote an alert for
WrittenIds(p) == IF inv[p].commits = <<>> THEN {} ELSE CreatedIds(p)

\* C29: on a store in which every checkpoint is active, in a building, has
\* been cleaned and carries the time of its latest log, when one run of the
\* predecessor and one run of the function on that store are both DONE, they
\* have created alerts for the same checkpoints, one alert each.
C29_SameAlertsAsPredecessor ==
    (/\ DenormalizedStore
     /\ inv[2].pc = "DONE"
     /\ inv[2].reads # <<>>
     /\ inv[1].pc = "DONE")
        => /\ AddedIds(2) = WrittenIds(1)
           /\ Cardinality(AddedIds(2)) = Len(inv[2].added)
           /\ Cardinality(WrittenIds(1)) = Len(inv[1].alertsToCreate)

\* both runs are DONE on a store of more than two chunks of overdue
\* checkpoints: they alerted the same checkpoints and skipped the others,
\* the predecessor with a read of cleaning_logs for every checkpoint
C29_Witness ==
    /\ DenormalizedStore
    /\ inv[2].pc = "DONE"
    /\ inv[1].pc = "DONE"
    /\ Len(inv[1].overdue) > 2 * chunkSize
    /\ AddedIds(2) = WrittenIds(1)
    /\ AddedIds(2) # {}
    /\ OverdueIds(1) \ AddedIds(2) # {}
    /\ ReadsOf(inv[2], "cleaning_logs") = Len(checkpoints)
    /\ ReadsOf(inv[2], "buildings") = 1

\* ------------------------------------------------------- the PII filter
\* AI_SAFE_FIELDS.cleaningLog, every path as path.split('.')
AI_SAFE_FIELDS_cleaningLog ==
    << <<"id">>, <<"checkpoint_id">>, <<"building_id">>, <<"sync_status">>,
       <<"created_at">>,
       <<"proof_of_quality", "overall_score">>,
       <<"proof_of_quality", "detected_objects">>,
       <<"proof_of_quality", "ai_model_used">>,
       <<"proof_of_quality", "inference_time_ms">>,
       <<"proof_of_quality", "passed_validation">>,
       <<"verification_result", "status">>,
       <<"verification_result", "rejection_reason">> >>

\* PII_FIELDS.cleaningLog
PII_FIELDS_cleaningLog ==
    << <<"cleaner_id">>, <<"proof_of_presence", "geo_location">>,
       <<"proof_of_presence", "nfc_tap_timestamp">> >>

\* source[key]: a property of a primitive is undefined
Get(h, source, key) ==
    IF source.t = "ref" THEN h[source.id][key] ELSE undefined

\* target[key] = value: an assignment to a primitive is dropped
Put(h, target, key, value) ==
    IF target.t = "ref" THEN [h EXCEPT ![target.id][key] = value] ELSE h

\* JavaScript truthiness: an object is truthy, the empty text is not
Truthy(value) ==
    \/ value.t = "ref"
    \/ value.t = "prim" /\ value.v # <<>>

\* one word of a text under REDACTION_PATTERNS
redactWord(word) ==
    CASE word \in {"EMP-7", "worker-12"} -> "[WORKER_ID_REDACTED]"
      [] word = "ann@corp.io" -> "[EMAIL_REDACTED]"
      [] word = "123-45-6789" -> "[SSN_REDACTED]"
      [] OTHER -> word

\* redactText: every match of every pattern is replaced
redactText(text) == [k \in DOMAIN text |-> redactWord(text[k])]

\* the inner loop of pickPaths from part i of one path on: the loop stops
\* on an undefined source, copies at the last part, descends at an earlier
\* part when source[key] is defined and otherwise goes on to the next part
\* with the same source and target
RECURSIVE pickPath(_, _, _, _, _)
pickPath(h, parts, i, source, target) ==
    IF i > Len(parts) \/ source = undefined THEN h
    ELSE LET key == parts[i] IN
         IF i = Len(parts)
         THEN IF Get(h, source, key) # undefined
              THEN Put(h, target, key, Get(h, source, key))
              ELSE h
         ELSE IF Get(h, source, key) # undefined
              THEN LET made ==
                           IF Truthy(Get(h, target, key)) THEN h
                           ELSE Put([h EXCEPT ![target.id \o <<key>>] =
                                        EmptyObject],
                                    target, key, Ref(target.id \o <<key>>))
                   IN  pickPath(made, parts, i + 1, Get(h, source, key),
                                Get(made, target, key))
              ELSE pickPath(h, parts, i + 1, source, target)

\* pickPaths(obj, paths) from path n on; result is a new object
RECURSIVE pickPathsFrom(_, _, _, _)
pickPathsFrom(h, obj, paths, n) ==
    IF n > Len(paths) THEN h
    ELSE pickPathsFrom(pickPath(h, paths[n], 1, obj, Ref(<<"result">>)),
                       obj, paths, n + 1)

pickPaths(h, obj, paths) ==
    pickPathsFrom([h EXCEPT ![<<"result">>] = EmptyObject], obj, paths, 1)

\* the heap after sanitizeLogForAI(log): the projection, then the
\* redaction of sanitized.verification_result.rejection_reason when truthy
sanitizeLogForAI(h, log) ==
    LET picked == pickPaths(h, log, AI_SAFE_FIELDS_cleaningLog)
        result == Ref(<<"result">>)
        verification == Get(picked, result, "verification_result")
        reason == Get(picked, verification, "rejection_reason")
    IN  IF Truthy(reason) /\ reason.t = "prim"
        THEN Put(picked, verification, "rejection_reason",
                 Prim(redactText(reason.v)))
        ELSE picked

\* the texts a rejection reason is drawn from
Reasons ==
    {<<>>, <<"streaks", "on", "mirror">>, <<"see", "EMP-7">>}

\* a cleaning log: top-level fields, and each nested object absent or
\* present with some of its fields
DrawnLogs ==
    { [o \in ObjIds |->
          CASE o = <<"log">> ->
                   [EmptyObject EXCEPT
                       !["id"] = top[1], !["cleaner_id"] = top[2],
                       !["status"] = top[3],
                       !["proof_of_quality"] =
                           IF has[1] THEN Ref(<<"log", "proof_of_quality">>)
                           ELSE undefined,
                       !["verification_result"] =
                           IF has[2] THEN Ref(<<"log", "verification_result">>)
                           ELSE undefined,
                       !["proof_of_presence"] =
                           IF has[3] THEN Ref(<<"log", "proof_of_presence">>)
                           ELSE undefined]
            [] o = <<"log", "proof_of_quality">> /\ has[1] ->
                   [EmptyObject EXCEPT !["overall_score"] = inner[1]]
            [] o = <<"log", "verification_result">> /\ has[2] ->
                   [EmptyObject EXCEPT
                       !["status"] = inner[2], !["verified_by"] = inner[3],
                       !["rejection_reason"] = reason]
            [] o = <<"log", "proof_of_presence">> /\ has[3] ->
                   [EmptyObject EXCEPT !["geo_location"] = Prim(<<"12.97,77.59">>)]
            [] OTHER -> EmptyObject] :
        top \in {undefined, Prim(<<"L1">>)} \X {undefined, Prim(<<"W7">>)}
                    \X {undefined, Prim(<<"DRAFT">>)},
        has \in BOOLEAN \X BOOLEAN \X BOOLEAN,
        inner \in {undefined, Prim(<<"92">>)} \X {undefined, Prim(<<"REJECTED">>)}
                    \X {undefined, Prim(<<"W7">>)},
        reason \in {undefined} \cup {Prim(r) : r \in Reasons} }

InitSanitize ==
    /\ clock = 0
    /\ checkpoints = <<>>
    /\ alerts = <<>>
    /\ inv = [p \in Procs |-> IdleInv]
    /\ runs = 0
    /\ nServices = 0
    /\ nClosures = 0
    /\ heap \in DrawnLogs
    /\ sanitized = undefined

\* const sanitized = sanitizeLogForAI(log)
Sanitize ==
    /\ sanitized = undefined
    /\ heap' = sanitizeLogForAI(heap, Ref(<<"log">>))
    /\ sanitized' = Ref(<<"result">>)
    /\ UNCHANGED <<clock, checkpoints, alerts, inv, runs, nServices, nClosures>>

NextSanitize == Sanitize

SpecSanitize == InitSanitize /\ [][NextSanitize]_vars

\* the value of an object graph at a path, undefined when a part is missing
RECURSIVE ValueAt(_, _, _, _)
ValueAt(h, value, path, i) ==
    IF i > Len(path) THEN value
    ELSE ValueAt(h, Get(h, value, path[i]), path, i + 1)

\* the paths at which an object holds a field (a value that is no object)
FieldPaths(h, root) ==
    {<<k>> : k \in {j \in Keys : Get(h, root, j).t = "prim"}}
    \cup UNION {{<<k, j>> : j \in {m \in Keys :
                                     Get(h, Get(h, root, k), m) # undefined}} :
                k \in {n \in Keys : Get(h, root, n).t = "ref"}}

\* two logs that differ only in fields outside the list
SameSafeFields(h1, h2) ==
    \A n \in DOMAIN AI_SAFE_FIELDS_cleaningLog :
        ValueAt(h1, Ref(<<"log">>), AI_SAFE_FIELDS_cleaningLog[n], 1)
            = ValueAt(h2, Ref(<<"log">>), AI_SAFE_FIELDS_cleaningLog[n], 1)

\* the objects of the output of sanitizeLogForAI on a log
OutputOf(h) ==
    [o \in ResultObjects |-> sanitizeLogForAI(h, Ref(<<"log">>))[o]]

OnlySafePaths ==
    sanitized' # sanitized =>
        FieldPaths(heap', sanitized') \subseteq Range(AI_SAFE_FIELDS_cleaningLog)

NoPiiPaths ==
    sanitized' # sanitized =>
        \A path \in FieldPaths(heap', sanitized') :
            path[1] \notin {pii[1] : pii \in Range(PII_FIELDS_cleaningLog)}

SameOutputForSameSafeFields ==
    sanitized' # sanitized =>
        \A other \in DrawnLogs :
            SameSafeFields(heap, other) =>
                OutputOf(other) = [o \in ResultObjects |-> heap'[o]]

InputNotModified ==
    sanitized' # sanitized => \A o \in LogObjects : heap'[o] = heap[o]

\* C30: the output of sanitizeLogForAI holds only field paths listed in
\* AI_SAFE_FIELDS.cleaningLog and never cleaner_id or a proof_of_presence
\* field; two logs that differ only in fields outside the list sanitize to
\* identical outputs; the input record is not modified.
C30_PrivacyProjection ==
    [][/\ OnlySafePaths
       /\ NoPiiPaths
       /\ SameOutputForSameSafeFields
       /\ InputNotModified]_vars

====
